---- MODULE Spec2Model ----
(***************************************************************************)
(* Model of the StatefulSet syncer of radondb-mysql-kubernetes             *)
(* (cluster/syncer/statefulset.go): Sync / creteOrUpdate / mutate, the     *)
(* rolling update of the pods (updatePod, applyNWait) and the poller       *)
(* (retry), running against an object store that also serves the           *)
(* StatefulSet controller, the consensus sidecar and other writers.        *)
(***************************************************************************)
EXTENDS Integers, Sequences, FiniteSets, TLC

(***************************************************************************)
(* Bounds of the model.                                                    *)
(***************************************************************************)
\* Sync() invocations in one behaviour.
MaxSyncs == 2
\* Changes of the config map in one behaviour.
MaxChanges == 1
\* Disturbances in one behaviour: a pod that fails or loses its health
\* label, leadership that moves, a write of another client.
MaxFaults == 1
\* The deadline of retry, in intervals (waitLimit is 720 intervals of 10 s).
PollLimit == 3
\* The latest call at which a stub f reports done or errs.
StubCalls == 4

\* Replica counts the CRD admits for a running fleet
\* (+kubebuilder:validation:Enum=0;2;3;5).
ReplicaChoices == {2, 3, 5}
\* The fleets of the specification Spec; the five pod fleet runs in SpecQuorum.
SmallFleets == {2, 3}
MaxPods == 5
PodIds == 1..MaxPods

(***************************************************************************)
(* Maps (map[string]string) are functions whose DOMAIN is the set of keys  *)
(* present; a lookup of an absent key yields "" as in Go.                  *)
(***************************************************************************)
EmptyMap == [k \in {} |-> ""]

Lookup(m, k) == IF k \in DOMAIN m THEN m[k] ELSE ""

\* m with the entries of over written on top of it.
Overlay(m, over) ==
    [k \in DOMAIN m \cup DOMAIN over |-> IF k \in DOMAIN over THEN over[k] ELSE m[k]]

\* m[k] = v
MapSet(m, k, v) == [x \in DOMAIN m \cup {k} |-> IF x = k THEN v ELSE m[x]]

(***************************************************************************)
(* The cluster (ClusterView) as far as mutate reads it.                    *)
(***************************************************************************)
\* Cluster.GetLabels(): the base label set of the cluster's pods.
BaseLabels == [k \in {"app", "cluster"} |-> IF k = "app" THEN "mysql" ELSE "sample"]

\* utils.MetricsPort, printed with %d.
MetricsPortStr == "9104"

DefaultCluster(n) ==
    [replicas          |-> n,
     podLabels         |-> EmptyMap,
     podAnnotations    |-> EmptyMap,
     metrics           |-> FALSE,
     slowLogTail       |-> FALSE,
     auditLogTail      |-> FALSE,
     schedulerName     |-> "",
     priorityClassName |-> "",
     affinity          |-> "",
     tolerations       |-> <<>>,
     persistence       |-> TRUE,
     vctError          |-> FALSE,
     deleting          |-> FALSE,
     created           |-> TRUE]

(***************************************************************************)
(* The StatefulSet object.                                                 *)
(***************************************************************************)
ZeroPodSpec ==
    [initContainers     |-> <<>>,
     containers         |-> <<>>,
     schedulerName      |-> "",
     serviceAccountName |-> "",
     affinity           |-> "",
     priorityClassName  |-> "",
     tolerations        |-> <<>>]

ZeroTemplate == [labels |-> EmptyMap, annotations |-> EmptyMap, spec |-> ZeroPodSpec]

ZeroStatus ==
    [replicas |-> 0, readyReplicas |-> 0, updatedReplicas |-> 0, updateRevision |-> <<>>]

\* The object NewStatefulSetSyncer builds: name and namespace only.
NewSfs ==
    [serviceName |-> "",
     replicas    |-> 0,
     selector    |-> EmptyMap,
     strategy    |-> "",
     template    |-> ZeroTemplate,
     vct         |-> <<>>,
     owner       |-> FALSE,
     status      |-> ZeroStatus]

\* The revision hash the StatefulSet controller gives a pod template: equal
\* templates, and only those, have equal hashes.
RevisionOf(template) == <<template>>

(***************************************************************************)
(* ensurePodSpec and mutate.                                               *)
(***************************************************************************)
ensurePodSpec(c) ==
    [initContainers     |-> <<"init-sidecar", "init-mysql">>,
     containers         |-> <<"mysql", "xenon">>
                              \o (IF c.metrics THEN <<"metrics">> ELSE <<>>)
                              \o (IF c.slowLogTail THEN <<"slowlog">> ELSE <<>>)
                              \o (IF c.slowLogTail THEN <<"auditlog">> ELSE <<>>),
     schedulerName      |-> c.schedulerName,
     serviceAccountName |-> "sample-sa",
     affinity           |-> c.affinity,
     priorityClassName  |-> c.priorityClassName,
     tolerations        |-> c.tolerations]

\* mergo.Merge(&dst, src, WithTransformers(transformers.PodSpec)): the
\* container lists are merged by name and come out as src's lists; a string
\* of src replaces dst's unless it is empty; any other field of dst is
\* filled from src only while it is empty.
MergeString(dst, src) == IF src # "" THEN src ELSE dst

MergeEmpty(dst, src, zero) == IF dst = zero THEN src ELSE dst

\* A merge that would append the containers to those already there.
MergeAppend(dst, src) ==
    [initContainers     |-> dst.initContainers \o src.initContainers,
     containers         |-> dst.containers \o src.containers,
     schedulerName      |-> MergeString(dst.schedulerName, src.schedulerName),
     serviceAccountName |-> MergeString(dst.serviceAccountName, src.serviceAccountName),
     affinity           |-> MergeEmpty(dst.affinity, src.affinity, ""),
     priorityClassName  |-> MergeString(dst.priorityClassName, src.priorityClassName),
     tolerations        |-> MergeEmpty(dst.tolerations, src.tolerations, <<>>)]

\* Containers are merged by name: the lists come out as those of src.
MergePodSpec(dst, src) ==
    [initContainers     |-> src.initContainers,
     containers         |-> src.containers,
     schedulerName      |-> MergeString(dst.schedulerName, src.schedulerName),
     serviceAccountName |-> MergeString(dst.serviceAccountName, src.serviceAccountName),
     affinity           |-> MergeEmpty(dst.affinity, src.affinity, ""),
     priorityClassName  |-> MergeString(dst.priorityClassName, src.priorityClassName),
     tolerations        |-> MergeEmpty(dst.tolerations, src.tolerations, <<>>)]

\* A builder that would write the user's labels after the forced ones.
UserLabelsLast(c) ==
    Overlay(MapSet(MapSet(BaseLabels, "role", "candidate"), "healthy", "no"), c.podLabels)

\* Lines 231-236: the template's labels.
TemplateLabels(c) ==
    MapSet(MapSet(Overlay(BaseLabels, c.podLabels), "role", "candidate"), "healthy", "no")

\* Lines 238-247: the template's annotations. The map is the cluster's own
\* map unless that one is empty.
TemplateAnnotations(c, cmRev, sctRev) ==
    LET base == c.podAnnotations
        m1   == IF c.metrics
                  THEN MapSet(MapSet(base, "prometheus.io/scrape", "true"),
                              "prometheus.io/port", MetricsPortStr)
                  ELSE base
    IN  MapSet(MapSet(m1, "config_rev", cmRev), "secret_rev", sctRev)

\* mutate(): the object after the call, the error ("" for nil), and the
\* cluster's pod annotation map after the call.
mutate(obj, c, cmRev, sctRev) ==
    LET ann  == TemplateAnnotations(c, cmRev, sctRev)
        tmpl == [labels      |-> TemplateLabels(c),
                 annotations |-> ann,
                 spec        |-> [MergePodSpec(obj.template.spec, ensurePodSpec(c))
                                    EXCEPT !.tolerations = c.tolerations]]
        o1   == [obj EXCEPT !.serviceName = "sample-mysql",
                            !.replicas    = c.replicas,
                            !.selector    = BaseLabels,
                            !.strategy    = "OnDelete",
                            !.template    = tmpl]
        o2   == IF c.persistence /\ ~c.vctError THEN [o1 EXCEPT !.vct = <<"data">>] ELSE o1
        o3   == IF ~c.deleting THEN [o2 EXCEPT !.owner = TRUE] ELSE o2
        err  == IF c.persistence /\ c.vctError THEN "volume claim templates"
                ELSE IF c.deleting /\ ~c.created THEN "owner is deleted"
                ELSE ""
    IN  [obj         |-> o3,
         err         |-> err,
         annotations |-> IF c.podAnnotations = EmptyMap THEN c.podAnnotations ELSE ann]

\* A comparison that would never find two objects equal.
NeverEqual(a, b) == FALSE

\* equality.Semantic.DeepEqual(existing, s.sfs)
SemanticEqual(a, b) == a = b

(***************************************************************************)
(* Pods.                                                                   *)
(***************************************************************************)
\* A pod name that is no pod (the empty Name of a zero corev1.Pod).
NoName == 0

AbsentPod ==
    [phase |-> "Absent", mysql |-> FALSE, xenon |-> FALSE,
     rev |-> <<>>, healthy |-> "", role |-> ""]

\* The zero corev1.Pod of "var leaderPod corev1.Pod".
ZeroPod == [name |-> NoName, obj |-> AbsentPod]

\* A pod as the StatefulSet controller creates it from the template
\* (labels role=candidate, healthy=no) at revision rev.
FreshPod(rev) ==
    [phase |-> "Pending", mysql |-> FALSE, xenon |-> FALSE,
     rev |-> rev, healthy |-> "no", role |-> "candidate"]

SteadyPod(rev, isLeader) ==
    [phase |-> "Running", mysql |-> TRUE, xenon |-> TRUE,
     rev |-> rev, healthy |-> "yes", role |-> IF isLeader THEN "leader" ELSE "candidate"]

PodReady(p) == p.phase = "Running" /\ p.mysql /\ p.xenon

(***************************************************************************)
(* The conditions of creteOrUpdate, updatePod and applyNWait.              *)
(***************************************************************************)
\* An update whose error would be dropped.
NeverRejected(err) == FALSE

\* An update that would let a conflict pass.
RejectedUnlessConflict(err) == err # "" /\ err # "conflict"

\* Line 158: the update write was rejected.
UpdateRejected(err) == err # ""

\* An entry without the check of the updated replicas.
NeverPending(status) == FALSE

\* Line 171: nothing is pending.
NothingPending(status) == status.updatedReplicas >= status.replicas

\* An entry without the check of the ready replicas.
AlwaysReady(status) == FALSE

\* Line 177: not all replicas are ready.
NotAllReady(status) == status.readyReplicas < status.replicas

\* Line 196
Unhealthy(p) == p.obj.healthy # "yes"

\* A loop that would take the leader where it stands in the listing.
NeverDefer(p, leader) == FALSE

\* A loop that would keep every pod labeled leader for last.
DeferEveryLeader(p, leader) == p.obj.role = "leader"

\* Line 200: the pod is the one kept for last.
IsLeaderToDefer(p, leader) == p.obj.role = "leader" /\ leader.name = NoName

\* A loop that would go on after a failed apply-and-wait.
NeverAbort(err) == FALSE

\* Lines 206-208 and 213-215: apply-and-wait failed, the rollout returns.
AbortOnError(err) == err # ""

\* An applyNWait that would delete every pod.
NeverUpdated(p, status) == FALSE

\* Line 307
AlreadyUpdated(p, status) == p.obj.rev = status.updateRevision

\* A probe that would not look for the failed phase.
NeverFailed(p) == FALSE

\* Lines 322-338: the probe of applyNWait on the pod it holds.
ProbeFailed(p) == p.obj.phase = "Failed"

\* A probe that would not wait.
DoneAtOnce(p, status) == TRUE

\* A probe that would only look at the revision.
DoneByRevision(p, status) == p.obj.rev = status.updateRevision

ProbeDone(p, status) ==
    /\ p.obj.phase = "Running"
    /\ p.obj.xenon
    /\ p.obj.mysql
    /\ p.obj.rev = status.updateRevision
    /\ p.obj.healthy = "yes"

(***************************************************************************)
(* Sync's classification of the outcome (lines 111-126).                   *)
(***************************************************************************)
NoEvent == <<>>

\* A Sync() that would set an event for the soft signals as well.
EventAlways(op, err) ==
    IF err = "ErrOwnerDeleted" \/ err = "ErrIgnore"
      THEN [op |-> op, err |-> "", event |-> <<"Normal", "SyncSuccessfull", op>>]
    ELSE IF err # ""
      THEN [op |-> op, err |-> err, event |-> <<"Warning", "SyncFailed", err>>]
    ELSE [op |-> op, err |-> "", event |-> <<"Normal", "SyncSuccessfull", op>>]

\* Sync(), lines 111-126: what it returns for what creteOrUpdate returned.
SyncResultOf(op, err) ==
    IF err = "ErrOwnerDeleted" \/ err = "ErrIgnore"
      THEN [op |-> op, err |-> "", event |-> NoEvent]
    ELSE IF err # ""
      THEN [op |-> op, err |-> err, event |-> <<"Warning", "SyncFailed", err>>]
    ELSE [op |-> op, err |-> "", event |-> <<"Normal", "SyncSuccessfull", op>>]

(***************************************************************************)
(* State.                                                                  *)
(***************************************************************************)
VARIABLES
    \* inputs of NewStatefulSetSyncer
    cluster,      \* the cluster (ClusterView)
    cmRev,        \* the config map's resourceVersion
    \* the object store
    storeExists,  \* the StatefulSet exists
    storeSfs,     \* the StatefulSet as stored (NewSfs while it does not exist)
    podStore,     \* pod name -> pod (AbsentPod while it does not exist)
    \* the syncer
    pc,           \* where Sync() stands
    sfs,          \* s.sfs
    tokenFresh,   \* s.sfs carries the store's current resourceVersion
    items,        \* pods.Items of updatePod
    idx,          \* position of the range loop in items
    leaderPod,    \* leaderPod of updatePod
    pod,          \* the pod applyNWait holds
    inLeader,     \* applyNWait runs for leaderPod (line 213)
    ret,          \* what creteOrUpdate returned: (op, err)
    \* history of the running Sync()
    delLog,       \* names of the pods deleted, in order
    okSet,        \* names of the pods whose applyNWait returned nil
    doneLog,      \* the stored pods as they were at the probes that reported done
    applied,      \* names of the pods applyNWait was called for, in order
    didWrite,     \* "create" / "update" once the write succeeded, else ""
    entry,        \* how updatePod was entered: "", "nothing pending", "not ready", "rollout"
    listed,       \* the pods were listed
    fetchedEq,    \* an object was fetched and mutate left it as it was
    fetchedDue,   \* an object was fetched whose status shows every replica ready
                  \* and not every replica updated
    quorumStart,  \* all replicas were running and healthy when the pods were listed
    extFault,     \* a pod lost its health label by itself since the pods were listed
    \* history across Sync() calls
    dirty,        \* something outside changed since this Sync() began
    lastOp,       \* what the last Sync() returned as its operation, "" if none ran
                  \* or something outside changed since it began
    owed,         \* the last Sync() wrote a template and did not finish rolling it out,
                  \* and the inputs have not changed since
    \* budgets
    nSyncs, nFaults, nChanges,
    \* retry(in, limit, f) run on a stub f
    stub,         \* the stub: the call at which f reports done, and errs (0: never)
    pollPc,       \* where retry stands
    clock,        \* time since the timers were made, in intervals
    tickC,        \* tk.C holds a tick
    doneC,        \* done.C holds the deadline
    callLog,      \* the clock at each call of f
    lateCalls,    \* calls of f issued while done.C held the deadline
    \* the init-sidecar container: its environment and "sidecar init"
    sideIn,       \* what the cluster hands to getEnvVars
    sidePc,       \* where the sidecar stands
    env,          \* the environment of the container
    cfg,          \* the Config of NewConfig
    xenonConf     \* what buildXenonConf wrote

inputVars == <<cluster, cmRev>>
storeVars == <<storeExists, storeSfs, podStore>>
loopVars  == <<items, idx, leaderPod, pod, inLeader>>
histVars  == <<delLog, okSet, doneLog, applied, didWrite, entry, listed, fetchedEq, fetchedDue,
               quorumStart, extFault>>
cleanVars == <<dirty, lastOp, owed>>
countVars == <<nSyncs, nFaults, nChanges>>
mainVars == <<inputVars, storeVars, pc, sfs, tokenFresh, loopVars, ret, histVars,
              cleanVars, countVars>>
pollVars == <<stub, pollPc, clock, tickC, doneC, callLog, lateCalls>>
sideVars == <<sideIn, sidePc, env, cfg, xenonConf>>
vars == <<mainVars, pollVars, sideVars>>

\* The secret's resourceVersion does not change in the model.
sctRev == "s0"

Replicas == cluster.replicas

Names == 1..Replicas

Count(S) == Cardinality(S)

OpNone == "unchanged"
OpCreated == "created"
OpUpdated == "updated"

\* The status the StatefulSet controller reports for pods ps when the last
\* template it saw has revision rev.
ControllerStatus(rev, ps) ==
    [replicas        |-> Count({i \in PodIds : ps[i].phase # "Absent"}),
     readyReplicas   |-> Count({i \in PodIds : PodReady(ps[i])}),
     updatedReplicas |-> Count({i \in PodIds : ps[i].phase # "Absent" /\ ps[i].rev = rev}),
     updateRevision  |-> rev]

\* A status that shows every replica of the cluster ready and some replica not
\* at the update revision.
StatusDue(status) ==
    /\ status.replicas = Replicas
    /\ status.readyReplicas = status.replicas
    /\ status.updatedReplicas < status.replicas

\* The controller keeps the counts of the status up to date with the pods.
Recount(obj, ps) ==
    [obj EXCEPT !.status = ControllerStatus(obj.status.updateRevision, ps)]

(***************************************************************************)
(* Init: nothing exists yet, or a fleet is running with a leader at any    *)
(* position.                                                               *)
(***************************************************************************)
NoRet == [op |-> OpNone, err |-> ""]

\* The syncer between two Sync() calls.
LocalsClear ==
    /\ sfs' = NewSfs
    /\ tokenFresh' = FALSE
    /\ items' = <<>>
    /\ idx' = 0
    /\ leaderPod' = ZeroPod
    /\ pod' = ZeroPod
    /\ inLeader' = FALSE
    /\ ret' = NoRet
    /\ delLog' = <<>>
    /\ okSet' = {}
    /\ doneLog' = {}
    /\ applied' = <<>>
    /\ didWrite' = ""
    /\ entry' = ""
    /\ listed' = FALSE
    /\ fetchedEq' = FALSE
    /\ fetchedDue' = FALSE
    /\ quorumStart' = FALSE
    /\ extFault' = FALSE

\* The syncer at position p of Sync(), creteOrUpdate having returned r.
InitLocalAt(p, r) ==
    /\ pc = p
    /\ sfs = NewSfs
    /\ tokenFresh = FALSE
    /\ items = <<>>
    /\ idx = 0
    /\ leaderPod = ZeroPod
    /\ pod = ZeroPod
    /\ inLeader = FALSE
    /\ ret = r
    /\ delLog = <<>>
    /\ okSet = {}
    /\ doneLog = {}
    /\ applied = <<>>
    /\ didWrite = ""
    /\ entry = ""
    /\ listed = FALSE
    /\ fetchedEq = FALSE
    /\ fetchedDue = FALSE
    /\ quorumStart = FALSE
    /\ extFault = FALSE
    /\ dirty = TRUE
    /\ lastOp = ""
    /\ owed = FALSE
    /\ nSyncs = 0
    /\ nFaults = 0
    /\ nChanges = 0

InitLocal == InitLocalAt("idle", NoRet)

\* A fleet of the cluster's replicas running at the template of config
\* revision podRev, pod l leading, while the StatefulSet holds the template of
\* the current cmRev and the controller has seen it.
RunningFleet(podRev, l) ==
    LET old == mutate(NewSfs, cluster, podRev, sctRev).obj
        obj == mutate(NewSfs, cluster, cmRev, sctRev).obj
        ps  == [i \in PodIds |->
                  IF i <= cluster.replicas
                    THEN SteadyPod(RevisionOf(old.template), i = l)
                    ELSE AbsentPod]
    IN  /\ storeExists = TRUE
        /\ storeSfs = [obj EXCEPT !.status = ControllerStatus(RevisionOf(obj.template), ps)]
        /\ podStore = ps

\* Nothing exists yet.
FreshStart ==
    /\ cmRev = 0
    /\ storeExists = FALSE
    /\ storeSfs = NewSfs
    /\ podStore = [i \in PodIds |-> AbsentPod]

\* A fleet at the template of the current inputs.
SteadyStart == cmRev = 0 /\ \E l \in 1..cluster.replicas : RunningFleet(0, l)

\* A fleet whose pods are still to be replaced: an earlier Sync() wrote the
\* template and did not roll it out.
PendingStart == cmRev = 1 /\ \E l \in 1..cluster.replicas : RunningFleet(0, l)

\* retry does not run on a stub.
NoStub == [doneAt |-> 0, errAt |-> 0]

NoPoll ==
    /\ stub = NoStub
    /\ pollPc = "none"
    /\ clock = 0
    /\ tickC = FALSE
    /\ doneC = FALSE
    /\ callLog = <<>>
    /\ lateCalls = 0

\* No init-sidecar container runs: no cluster is given to getEnvVars, the
\* environment is empty, no Config and no xenon.json exist.
NoSidecar ==
    /\ sideIn = [version |-> <<>>, count |-> 0, timeout |-> 0]
    /\ sidePc = "none"
    /\ env = [k \in {} |-> <<>>]
    /\ cfg = [version |-> <<>>, count |-> 0, timeout |-> 0]
    /\ xenonConf = [version |-> "", ping |-> 0, heartbeat |-> 0, request |-> 0]

Init ==
    /\ \E n \in SmallFleets : cluster = DefaultCluster(n)
    /\ \/ FreshStart /\ cluster.replicas = 2
       \/ SteadyStart
       \/ PendingStart
    /\ InitLocal
    /\ NoPoll
    /\ NoSidecar

(***************************************************************************)
(* Sync(): creteOrUpdate and the classification of its outcome.            *)
(***************************************************************************)
\* creteOrUpdate returns (op, err). d: something outside changed while this
\* Sync() ran.
\* The locals of creteOrUpdate and updatePod are gone with the return.
Return(op, err) ==
    /\ pc' = "return"
    /\ ret' = [op |-> op, err |-> err]
    /\ sfs' = NewSfs
    /\ tokenFresh' = FALSE
    /\ leaderPod' = ZeroPod
    /\ pod' = ZeroPod
    /\ inLeader' = FALSE
    /\ UNCHANGED <<lastOp, owed>>

Finish(op, err, d) == Return(op, err) /\ dirty' = d

\* A step inside creteOrUpdate that leads to pc value next.
Goto(next) ==
    /\ pc' = next
    /\ UNCHANGED <<ret, lastOp, owed>>

\* Lines 133-156: the fetch, mutate and the comparison.
SyncGet ==
    /\ UNCHANGED <<pollVars, sideVars>>
    /\ pc = "idle"
    /\ nSyncs < MaxSyncs
    /\ nSyncs' = nSyncs + 1
    /\ UNCHANGED <<cmRev, storeVars, nFaults, nChanges, loopVars>>
    /\ UNCHANGED <<delLog, okSet, doneLog, applied, didWrite, entry, listed, quorumStart, extFault>>
    /\ \/ \* the Get fails with an error other than NotFound
          /\ UNCHANGED <<cluster, fetchedEq, fetchedDue>>
          /\ Finish(OpNone, "get failed", TRUE)
       \/ \* NotFound: the create path
          /\ ~storeExists
          /\ UNCHANGED <<fetchedEq, fetchedDue>>
          /\ LET m == mutate(NewSfs, cluster, cmRev, sctRev)
             IN  /\ cluster' = [cluster EXCEPT !.podAnnotations = m.annotations]
                 /\ IF m.err # ""
                      THEN Return(OpNone, m.err) /\ dirty' = FALSE
                      ELSE /\ Goto("create")
                           /\ sfs' = m.obj
                           /\ dirty' = FALSE
                           /\ UNCHANGED tokenFresh
       \/ \* found
          /\ storeExists
          /\ LET existing == storeSfs
                 m        == mutate(storeSfs, cluster, cmRev, sctRev)
             IN  /\ cluster' = [cluster EXCEPT !.podAnnotations = m.annotations]
                 /\ fetchedEq' = (m.err = "" /\ existing = m.obj)
                 /\ fetchedDue' = StatusDue(existing.status)
                 /\ dirty' = FALSE
                 /\ IF m.err # ""
                      THEN Return(OpNone, m.err)
                    ELSE IF SemanticEqual(existing, m.obj)
                      THEN Return(OpNone, "")
                    ELSE /\ sfs' = m.obj
                         /\ tokenFresh' = TRUE
                         /\ Goto("update")

\* Lines 142-146
SyncCreate ==
    /\ UNCHANGED <<pollVars, sideVars>>
    /\ pc = "create"
    /\ UNCHANGED <<inputVars, podStore, loopVars, countVars>>
    /\ UNCHANGED <<delLog, okSet, doneLog, applied, entry, listed, fetchedEq, fetchedDue, quorumStart, extFault>>
    /\ \/ /\ Finish(OpNone, "create failed", TRUE)
          /\ UNCHANGED <<storeExists, storeSfs, didWrite>>
       \/ /\ ~storeExists
          /\ storeExists' = TRUE
          /\ storeSfs' = [sfs EXCEPT !.status = ZeroStatus]
          /\ didWrite' = "create"
          /\ Finish(OpCreated, "", dirty)

\* Lines 158-160: the update, guarded by the resourceVersion of the fetch.
\* The response carries the stored object, status included.
SyncUpdate ==
    /\ UNCHANGED <<pollVars, sideVars>>
    /\ pc = "update"
    /\ UNCHANGED <<inputVars, storeExists, podStore, loopVars, countVars>>
    /\ UNCHANGED <<delLog, okSet, doneLog, applied, entry, listed, fetchedEq, fetchedDue, quorumStart, extFault>>
    /\ \E e \in {IF ~storeExists THEN "not found"
                 ELSE IF ~tokenFresh THEN "conflict" ELSE "", "update failed"} :
         LET written == [sfs EXCEPT !.status = storeSfs.status]
         IN  /\ storeSfs' = IF e = "" THEN written ELSE storeSfs
             /\ didWrite' = IF e = "" THEN "update" ELSE didWrite
             /\ dirty' = (dirty \/ e # "")
             /\ IF UpdateRejected(e)
                  THEN Return(OpNone, e)
                  ELSE /\ sfs' = IF e = "" THEN written ELSE sfs
                       /\ Goto("updatePod")
                       /\ UNCHANGED tokenFresh

\* Lines 103-127: Sync() classifies what creteOrUpdate returned and returns
\* it; the syncer is dropped.
SyncReturn ==
    /\ UNCHANGED <<pollVars, sideVars>>
    /\ pc = "return"
    /\ pc' = "idle"
    /\ LocalsClear
    /\ lastOp' = IF dirty THEN "" ELSE ret.op
    /\ owed' = IF didWrite = "update"
                 THEN \/ entry = "not ready"
                      \/ /\ entry = "rollout"
                         /\ ret.err \in {"pod is in failed phase", "reach pod wait limit"}
                 ELSE owed
    /\ UNCHANGED <<inputVars, storeVars, dirty, countVars>>

(***************************************************************************)
(* updatePod                                                               *)
(***************************************************************************)
\* A creteOrUpdate that would report "updated" whatever updatePod returned.
OpAlwaysUpdated(err) == OpUpdated

\* Lines 162-166: the operation creteOrUpdate returns once updatePod has
\* returned err.
OpAfterUpdatePod(err) == IF err # "" THEN OpNone ELSE OpUpdated

\* updatePod returns err to creteOrUpdate, which returns.
UpdatePodReturns(err, d) == Finish(OpAfterUpdatePod(err), err, d)

\* Lines 170-180: the entry conditions.
UpdatePodEntry ==
    /\ UNCHANGED <<pollVars, sideVars>>
    /\ pc = "updatePod"
    /\ UNCHANGED <<inputVars, storeVars, loopVars, countVars>>
    /\ UNCHANGED <<delLog, okSet, doneLog, applied, didWrite, listed, fetchedEq, fetchedDue, quorumStart, extFault>>
    /\ IF NothingPending(sfs.status)
         THEN entry' = "nothing pending" /\ UpdatePodReturns("", dirty)
       ELSE IF NotAllReady(sfs.status)
         THEN entry' = "not ready" /\ UpdatePodReturns("", dirty)
       ELSE /\ entry' = "rollout"
            /\ Goto("list")
            /\ UNCHANGED <<sfs, tokenFresh, dirty>>

\* The pods of the fleet that exist, in the order of their names.
RECURSIVE ListFrom(_, _)
ListFrom(ps, i) ==
    IF i > MaxPods THEN <<>>
    ELSE IF ps[i].phase = "Absent" THEN ListFrom(ps, i + 1)
    ELSE <<[name |-> i, obj |-> ps[i]]>> \o ListFrom(ps, i + 1)

\* Lines 182-191
UpdatePodList ==
    /\ UNCHANGED <<pollVars, sideVars>>
    /\ pc = "list"
    /\ UNCHANGED <<inputVars, storeVars, countVars>>
    /\ UNCHANGED <<delLog, okSet, doneLog, applied, didWrite, entry, fetchedEq, fetchedDue>>
    /\ \/ /\ UpdatePodReturns("list failed", TRUE)
          /\ UNCHANGED <<items, idx, listed, quorumStart, extFault>>
       \/ /\ items' = ListFrom(podStore, 1)
          /\ idx' = 1
          /\ listed' = TRUE
          /\ quorumStart' = \A i \in Names :
                               podStore[i].phase = "Running" /\ podStore[i].healthy = "yes"
          /\ extFault' = FALSE
          /\ Goto("loop")
          /\ UNCHANGED <<sfs, tokenFresh, dirty, leaderPod, pod, inLeader>>

\* applyNWait returned nil for pod: the loop goes on, or updatePod returns
\* after the leader.
NextPod(d) ==
    IF inLeader
      THEN UpdatePodReturns("", d) /\ UNCHANGED <<items, idx>>
      ELSE /\ Goto("loop")
           /\ idx' = idx + 1
           /\ dirty' = d
           /\ UNCHANGED <<items, sfs, tokenFresh, leaderPod, pod, inLeader>>

\* applyNWait returned err.
Failed(err, d) ==
    IF AbortOnError(err)
      THEN UpdatePodReturns(err, d) /\ UNCHANGED <<items, idx>>
      ELSE NextPod(d)

\* Lines 195-216: one turn of the range loop up to the call of applyNWait,
\* and what follows the loop.
LoopStep ==
    /\ UNCHANGED <<pollVars, sideVars>>
    /\ pc = "loop"
    /\ UNCHANGED <<inputVars, storeVars, countVars, items>>
    /\ UNCHANGED <<delLog, okSet, doneLog, didWrite, entry, listed, fetchedEq, fetchedDue, quorumStart, extFault>>
    /\ IF idx > Len(items)
         THEN IF leaderPod.name # NoName
                THEN /\ pod' = leaderPod
                     /\ inLeader' = TRUE
                     /\ applied' = Append(applied, leaderPod.name)
                     /\ Goto("apply")
                     /\ UNCHANGED <<idx, sfs, tokenFresh, dirty, leaderPod>>
                ELSE /\ UpdatePodReturns("", dirty)
                     /\ UNCHANGED <<idx, applied>>
         ELSE LET p == items[idx]
              IN  IF Unhealthy(p)
                    THEN /\ UpdatePodReturns("pod is unhealthy", dirty)
                         /\ UNCHANGED <<idx, applied>>
                  ELSE IF IsLeaderToDefer(p, leaderPod)
                    THEN /\ leaderPod' = p
                         /\ idx' = idx + 1
                         /\ Goto("loop")
                         /\ UNCHANGED <<pod, inLeader, applied, sfs, tokenFresh, dirty>>
                  ELSE /\ pod' = p
                       /\ applied' = Append(applied, p.name)
                       /\ Goto("apply")
                       /\ UNCHANGED <<idx, leaderPod, inLeader, sfs, tokenFresh, dirty>>

(***************************************************************************)
(* applyNWait and retry                                                    *)
(***************************************************************************)
\* A delete that would be handed the StatefulSet in place of the pod.
DeleteOwner(ex, obj, ps, name) ==
    [exists |-> FALSE, sfs |-> NewSfs, pods |-> ps]

\* Line 310, s.cli.Delete(ctx, pod): the store after the delete. The pod is
\* gone and the controller counts the pods again.
DeletePod(ex, obj, ps, name) ==
    LET rest == [ps EXCEPT ![name] = AbsentPod]
    IN  [exists |-> ex, sfs |-> Recount(obj, rest), pods |-> rest]

\* Lines 307-313: delete the pod unless it is at the update revision.
Apply ==
    /\ UNCHANGED <<pollVars, sideVars>>
    /\ pc = "apply"
    /\ UNCHANGED <<inputVars, countVars>>
    /\ UNCHANGED <<okSet, doneLog, applied, didWrite, entry, listed, fetchedEq, fetchedDue, quorumStart, extFault>>
    /\ IF AlreadyUpdated(pod, sfs.status)
         THEN /\ Goto("probe")
              /\ UNCHANGED <<storeVars, delLog, loopVars, sfs, tokenFresh, dirty>>
         ELSE \E e \in {IF podStore[pod.name].phase = "Absent" THEN "pod not found" ELSE "",
                        "delete failed"} :
                IF e # ""
                  THEN /\ Failed(e, TRUE)
                       /\ UNCHANGED <<storeVars, delLog>>
                  ELSE /\ LET st == DeletePod(storeExists, storeSfs, podStore, pod.name)
                           IN  /\ storeExists' = st.exists
                               /\ storeSfs' = st.sfs
                               /\ podStore' = st.pods
                       /\ delLog' = Append(delLog, pod.name)
                       /\ Goto("probe")
                       /\ UNCHANGED <<loopVars, sfs, tokenFresh, dirty>>

\* The pod named i as the store holds it, by the fields the probe reads.
StoredAt(i) ==
    [name |-> i, phase |-> podStore[i].phase, mysql |-> podStore[i].mysql,
     xenon |-> podStore[i].xenon, rev |-> podStore[i].rev,
     healthy |-> podStore[i].healthy]

\* Lines 316-344: one call of the probe f. A Get that answers NotFound
\* leaves the pod as it was held.
Probe ==
    /\ UNCHANGED <<pollVars, sideVars>>
    /\ UNCHANGED <<inputVars, storeVars, countVars>>
    /\ UNCHANGED <<delLog, applied, didWrite, entry, listed, fetchedEq, fetchedDue, quorumStart, extFault>>
    /\ \/ /\ Failed("get pod failed", TRUE)
          /\ UNCHANGED <<okSet, doneLog>>
       \/ LET seen == IF podStore[pod.name].phase = "Absent"
                        THEN pod
                        ELSE [name |-> pod.name, obj |-> podStore[pod.name]]
          IN  IF ProbeFailed(seen)
                THEN /\ Failed("pod is in failed phase", dirty)
                     /\ UNCHANGED <<okSet, doneLog>>
              ELSE IF ProbeDone(seen, sfs.status)
                THEN /\ okSet' = okSet \cup {seen.name}
                     /\ doneLog' = doneLog \cup {StoredAt(seen.name)}
                     /\ NextPod(dirty)
              ELSE /\ pod' = seen
                   /\ Goto("wait")
                   /\ UNCHANGED <<okSet, doneLog, items, idx, sfs, tokenFresh, dirty, leaderPod,
                                  inLeader>>

\* Line 351: retry calls f at once.
ProbeFirst == pc = "probe" /\ Probe

\* Lines 368-375: a tick of the interval.
ProbeTick == pc = "wait" /\ Probe

\* Lines 366-367: the limit is reached.
WaitTimeout ==
    /\ UNCHANGED <<pollVars, sideVars>>
    /\ pc = "wait"
    /\ Failed("reach pod wait limit", dirty)
    /\ UNCHANGED <<inputVars, storeVars, countVars, histVars>>

(***************************************************************************)
(* The world around the syncer. Nothing of it moves between the return of  *)
(* creteOrUpdate and the return of Sync().                                 *)
(***************************************************************************)
WorldMoves == pc # "return"

\* Something Sync() depends on changed outside of it.
External == dirty' = TRUE /\ lastOp' = "" /\ owed' = FALSE

localVars == <<pc, sfs, loopVars, ret, histVars>>

\* The config map changes: the next syncer is built with a new cmRev.
EnvSpecChange ==
    /\ UNCHANGED <<pollVars, sideVars>>
    /\ pc = "idle"
    /\ nChanges < MaxChanges
    /\ nChanges' = nChanges + 1
    /\ cmRev' = cmRev + 1
    /\ External
    /\ UNCHANGED <<cluster, storeVars, localVars, tokenFresh, nSyncs, nFaults>>

\* A write of the status changes the resourceVersion under a Sync() that
\* has fetched and not yet written.
StatusWrite(st) ==
    /\ storeSfs' = [storeSfs EXCEPT !.status = st]
    /\ IF st = storeSfs.status
         THEN UNCHANGED <<tokenFresh, cleanVars>>
         ELSE /\ tokenFresh' = FALSE
              /\ IF pc = "update"
                   THEN dirty' = TRUE /\ lastOp' = "" /\ UNCHANGED owed
                   ELSE UNCHANGED cleanVars

\* The pods change to ps and the controller reports it.
PodsChange(ps) ==
    /\ podStore' = ps
    /\ StatusWrite(ControllerStatus(storeSfs.status.updateRevision, ps))

\* The StatefulSet controller sees the template that was written.
EnvCtrlObserve ==
    /\ UNCHANGED <<pollVars, sideVars>>
    /\ WorldMoves
    /\ storeExists
    /\ storeSfs.status.updateRevision # RevisionOf(storeSfs.template)
    /\ StatusWrite(ControllerStatus(RevisionOf(storeSfs.template), podStore))
    /\ UNCHANGED <<inputVars, storeExists, podStore, localVars, countVars>>

\* The controller creates a missing pod at the revision it last saw, lower
\* ordinals first and one at a time (OrderedReady).
EnvCtrlCreatePod(i) ==
    /\ UNCHANGED <<pollVars, sideVars>>
    /\ WorldMoves
    /\ storeExists
    /\ i <= storeSfs.replicas
    /\ podStore[i].phase = "Absent"
    /\ storeSfs.status.updateRevision # <<>>
    /\ \A j \in 1..(i - 1) : PodReady(podStore[j])
    /\ PodsChange([podStore EXCEPT ![i] = FreshPod(storeSfs.status.updateRevision)])
    /\ UNCHANGED <<inputVars, storeExists, localVars, countVars>>

\* A pod comes up: it runs, then mysql and then xenon report ready.
EnvPodUp(i) ==
    /\ UNCHANGED <<pollVars, sideVars>>
    /\ WorldMoves
    /\ \/ /\ podStore[i].phase = "Pending"
          /\ PodsChange([podStore EXCEPT ![i].phase = "Running"])
       \/ /\ podStore[i].phase = "Running"
          /\ ~podStore[i].mysql
          /\ PodsChange([podStore EXCEPT ![i].mysql = TRUE])
       \/ /\ podStore[i].phase = "Running"
          /\ podStore[i].mysql
          /\ ~podStore[i].xenon
          /\ PodsChange([podStore EXCEPT ![i].xenon = TRUE])
    /\ UNCHANGED <<inputVars, storeExists, localVars, countVars>>

\* The operator's status syncer labels a pod healthy once xenon answers.
EnvHealthy(i) ==
    /\ UNCHANGED <<pollVars, sideVars>>
    /\ WorldMoves
    /\ podStore[i].phase = "Running"
    /\ podStore[i].xenon
    /\ podStore[i].healthy = "no"
    /\ podStore' = [podStore EXCEPT ![i].healthy = "yes"]
    /\ UNCHANGED <<inputVars, storeExists, storeSfs, localVars, tokenFresh, cleanVars,
                   countVars>>

\* The consensus sidecars elect a leader when there is none.
EnvElect(i) ==
    /\ UNCHANGED <<pollVars, sideVars>>
    /\ WorldMoves
    /\ \A j \in PodIds : podStore[j].role # "leader"
    /\ podStore[i].phase = "Running"
    /\ podStore[i].healthy = "yes"
    /\ podStore' = [podStore EXCEPT ![i].role = "leader"]
    /\ UNCHANGED <<inputVars, storeExists, storeSfs, localVars, tokenFresh, cleanVars,
                   countVars>>

\* A pod that was started does not come up.
EnvPodFail(i) ==
    /\ UNCHANGED <<pollVars, sideVars>>
    /\ WorldMoves
    /\ nFaults < MaxFaults
    /\ podStore[i].phase \in {"Pending", "Running"}
    /\ podStore[i].healthy = "no"
    /\ PodsChange([podStore EXCEPT ![i].phase = "Failed",
                                   ![i].mysql = FALSE, ![i].xenon = FALSE])
    /\ nFaults' = nFaults + 1
    /\ UNCHANGED <<inputVars, storeExists, localVars, nSyncs, nChanges>>

\* A healthy pod loses its health label without having been deleted.
EnvUnhealthy(i) ==
    /\ UNCHANGED <<pollVars, sideVars>>
    /\ WorldMoves
    /\ nFaults < MaxFaults
    /\ podStore[i].phase = "Running"
    /\ podStore[i].healthy = "yes"
    /\ podStore' = [podStore EXCEPT ![i].healthy = "no"]
    /\ nFaults' = nFaults + 1
    /\ extFault' = TRUE
    /\ UNCHANGED <<inputVars, storeExists, storeSfs, pc, sfs, loopVars, ret,
                   delLog, okSet, doneLog, applied, didWrite, entry, listed, fetchedEq,
                   fetchedDue, quorumStart, tokenFresh, cleanVars, nSyncs, nChanges>>

\* Leadership moves from pod i to the healthy pod j.
EnvLeaderMove(i, j) ==
    /\ UNCHANGED <<pollVars, sideVars>>
    /\ WorldMoves
    /\ nFaults < MaxFaults
    /\ i # j
    /\ podStore[i].role = "leader"
    /\ podStore[j].phase = "Running"
    /\ podStore[j].healthy = "yes"
    /\ podStore' = [podStore EXCEPT ![i].role = "candidate", ![j].role = "leader"]
    /\ nFaults' = nFaults + 1
    /\ UNCHANGED <<inputVars, storeExists, storeSfs, localVars, tokenFresh, cleanVars,
                   nSyncs, nChanges>>

\* Another client writes the StatefulSet (it sets the update strategy),
\* between two Sync() calls or between the fetch and the write of one.
EnvOtherWrite ==
    /\ UNCHANGED <<pollVars, sideVars>>
    /\ nFaults < MaxFaults
    /\ pc \in {"idle", "update"}
    /\ storeExists
    /\ storeSfs.strategy = "OnDelete"
    /\ storeSfs' = [storeSfs EXCEPT !.strategy = "RollingUpdate"]
    /\ tokenFresh' = FALSE
    /\ nFaults' = nFaults + 1
    /\ External
    /\ UNCHANGED <<inputVars, storeExists, podStore, localVars, nSyncs, nChanges>>

Next ==
    \/ SyncGet
    \/ SyncCreate
    \/ SyncUpdate
    \/ SyncReturn
    \/ UpdatePodEntry
    \/ UpdatePodList
    \/ LoopStep
    \/ Apply
    \/ ProbeFirst
    \/ ProbeTick
    \/ WaitTimeout
    \/ EnvSpecChange
    \/ EnvCtrlObserve
    \/ \E i \in PodIds : EnvCtrlCreatePod(i)
    \/ \E i \in PodIds : EnvPodUp(i)
    \/ \E i \in PodIds : EnvHealthy(i)
    \/ \E i \in PodIds : EnvElect(i)
    \/ \E i \in PodIds : EnvPodFail(i)
    \/ \E i \in PodIds : EnvUnhealthy(i)
    \/ \E i, j \in PodIds : EnvLeaderMove(i, j)
    \/ EnvOtherWrite

Spec == Init /\ [][Next]_vars

(***************************************************************************)
(* The rollout alone, on every fleet size the cluster admits: a running    *)
(* fleet whose pods are to be replaced, and a world in which a pod goes    *)
(* down only when the rollout deletes it.                                  *)
(***************************************************************************)
InitQuorum ==
    /\ \E n \in ReplicaChoices : cluster = DefaultCluster(n)
    /\ PendingStart
    /\ InitLocal
    /\ NoPoll
    /\ NoSidecar

NextQuorum ==
    \/ SyncGet
    \/ SyncUpdate
    \/ SyncReturn
    \/ UpdatePodEntry
    \/ UpdatePodList
    \/ LoopStep
    \/ Apply
    \/ ProbeFirst
    \/ ProbeTick
    \/ WaitTimeout
    \/ EnvSpecChange
    \/ EnvCtrlObserve
    \/ \E i \in PodIds : EnvCtrlCreatePod(i)
    \/ \E i \in PodIds : EnvPodUp(i)
    \/ \E i \in PodIds : EnvHealthy(i)
    \/ \E i \in PodIds : EnvElect(i)

SpecQuorum == InitQuorum /\ [][NextQuorum]_vars

(***************************************************************************)
(* applyNWait on any pod: a fleet of two has been listed for a rollout, its *)
(* first pod in any state the probe can tell apart, and the pod goes on to  *)
(* change in any way, or to be deleted by another client, while             *)
(* applyNWait runs.                                                         *)
(***************************************************************************)
OldRev == RevisionOf(mutate(NewSfs, DefaultCluster(2), 0, sctRev).obj.template)

TargetRev == RevisionOf(mutate(NewSfs, DefaultCluster(2), 1, sctRev).obj.template)

\* The states of a pod that exists.
GatePods ==
    [phase : {"Pending", "Running", "Failed"}, mysql : BOOLEAN, xenon : BOOLEAN,
     rev : {OldRev, TargetRev}, healthy : {"yes", "no"}, role : {"candidate"}]

InitGate ==
    /\ cluster = DefaultCluster(2)
    /\ cmRev = 1
    /\ storeExists = TRUE
    /\ \E p \in GatePods :
          podStore = [i \in PodIds |-> IF i = 1 THEN p
                                       ELSE IF i = 2 THEN SteadyPod(TargetRev, TRUE)
                                       ELSE AbsentPod]
    /\ storeSfs = [mutate(NewSfs, cluster, cmRev, sctRev).obj
                     EXCEPT !.status = ControllerStatus(TargetRev, podStore)]
    /\ pc = "loop"
    /\ sfs = storeSfs
    /\ tokenFresh = TRUE
    /\ items = ListFrom(podStore, 1)
    /\ idx = 1
    /\ leaderPod = ZeroPod
    /\ pod = ZeroPod
    /\ inLeader = FALSE
    /\ ret = NoRet
    /\ delLog = <<>>
    /\ okSet = {}
    /\ doneLog = {}
    /\ applied = <<>>
    /\ didWrite = "update"
    /\ entry = "rollout"
    /\ listed = TRUE
    /\ fetchedEq = FALSE
    /\ fetchedDue = FALSE
    /\ quorumStart = FALSE
    /\ extFault = FALSE
    /\ dirty = FALSE
    /\ lastOp = ""
    /\ owed = FALSE
    /\ nSyncs = MaxSyncs
    /\ nFaults = 0
    /\ nChanges = 0
    /\ NoPoll
    /\ NoSidecar

\* While applyNWait waits for the first pod, the pod changes in one of the
\* fields the probe reads, is deleted by another client, or is created again.
EnvPodAny ==
    /\ UNCHANGED <<pollVars, sideVars>>
    /\ pc \in {"probe", "wait"}
    /\ pod.name = 1
    /\ \E p \in GatePods \cup {AbsentPod} :
          /\ p # podStore[1]
          /\ \/ p = AbsentPod
             \/ podStore[1] = AbsentPod
             \/ Count({f \in {"phase", "mysql", "xenon", "rev", "healthy"} :
                         p[f] # podStore[1][f]}) = 1
          /\ PodsChange([podStore EXCEPT ![1] = p])
    /\ UNCHANGED <<inputVars, storeExists, localVars, countVars>>

NextGate ==
    \/ LoopStep
    \/ Apply
    \/ ProbeFirst
    \/ ProbeTick
    \/ WaitTimeout
    \/ SyncReturn
    \/ EnvPodAny

SpecGate == InitGate /\ [][NextGate]_vars

(***************************************************************************)
(* retry(in, limit, f) on a stub f that reports done at one call, errs at  *)
(* one call, or does neither. Time is counted in intervals; f takes time.  *)
(***************************************************************************)
\* What the stub returns at its n-th call.
StubResult(st, n) ==
    [done |-> st.doneAt = n, err |-> IF st.errAt = n THEN "probe error" ELSE ""]

\* A retry that would not look at fdone.
OutcomeNoDone(r) == IF r.err # "" THEN "failed" ELSE "select"

\* A retry that would drop the error of f.
OutcomeNoErr(r) == IF r.done THEN "ok" ELSE "select"

\* Lines 351-357 and 369-375: what retry does with (fdone, err).
RetryOutcome(r) ==
    IF r.err # "" THEN "failed"
    ELSE IF r.done THEN "ok"
    ELSE "select"

\* What retry returned, "" for nil.
RetryError ==
    IF pollPc = "failed" THEN "probe error"
    ELSE IF pollPc = "timeout" THEN "reach pod wait limit"
    ELSE ""

InitPoller ==
    /\ cluster = DefaultCluster(2)
    /\ FreshStart
    /\ InitLocal
    /\ stub \in [doneAt : 0..StubCalls, errAt : 0..StubCalls]
    /\ pollPc = "start"
    /\ clock = 0
    /\ tickC = FALSE
    /\ doneC = FALSE
    /\ callLog = <<>>
    /\ lateCalls = 0
    /\ NoSidecar

\* Line 351: f is called at once.
PollFirst ==
    /\ pollPc = "start"
    /\ pollPc' = "first"
    /\ callLog' = <<clock>>
    /\ UNCHANGED <<mainVars, sideVars, stub, clock, tickC, doneC, lateCalls>>

\* Lines 352-362: the first call returns; the timer and the ticker are made.
PollFirstReturns ==
    /\ pollPc = "first"
    /\ pollPc' = RetryOutcome(StubResult(stub, Len(callLog)))
    /\ UNCHANGED <<mainVars, sideVars, stub, clock, tickC, doneC, callLog, lateCalls>>

\* The clock and the logs are kept up to the last call at which a stub can
\* answer, one interval a call; later intervals and calls are not told apart.
ClockCap == PollLimit + StubCalls

CallCap == StubCalls + 1

\* An interval passes, while f runs or while the select waits with nothing
\* to receive. The ticker leaves a tick in tk.C, which holds one, also after
\* the limit; at the limit the timer leaves the deadline in done.C, which
\* holds it until it is received. The timer was made first: when the select
\* waits, it is woken by the deadline.
TimePasses ==
    /\ \/ pollPc = "probing"
       \/ pollPc = "select" /\ ~tickC /\ ~doneC
    /\ clock' = IF clock < ClockCap THEN clock + 1 ELSE clock
    /\ doneC' = (doneC \/ clock' >= PollLimit)
    /\ tickC' = (pollPc = "probing" \/ ~doneC')
    /\ UNCHANGED <<mainVars, sideVars, stub, pollPc, callLog, lateCalls>>

\* Lines 368-369: the select receives the tick and calls f.
PollTick ==
    /\ pollPc = "select"
    /\ tickC
    /\ tickC' = FALSE
    /\ pollPc' = "probing"
    /\ callLog' = IF Len(callLog) < CallCap THEN Append(callLog, clock) ELSE callLog
    /\ lateCalls' = IF doneC /\ lateCalls < CallCap THEN lateCalls + 1 ELSE lateCalls
    /\ UNCHANGED <<mainVars, sideVars, stub, clock, doneC>>

\* Lines 369-375: the call returns.
PollReturns ==
    /\ pollPc = "probing"
    /\ pollPc' = RetryOutcome(StubResult(stub, Len(callLog)))
    /\ UNCHANGED <<mainVars, sideVars, stub, clock, tickC, doneC, callLog, lateCalls>>

\* A retry that would receive the deadline and go on with the loop.
DeadlineIgnored ==
    /\ pollPc = "select"
    /\ doneC
    /\ doneC' = FALSE
    /\ UNCHANGED <<mainVars, sideVars, stub, pollPc, clock, tickC, callLog, lateCalls>>

\* Lines 366-367: the select receives the deadline.
PollDeadline ==
    /\ pollPc = "select"
    /\ doneC
    /\ pollPc' = "timeout"
    /\ UNCHANGED <<mainVars, sideVars, stub, clock, tickC, doneC, callLog, lateCalls>>

NextPoller ==
    \/ PollFirst
    \/ PollFirstReturns
    \/ TimePasses
    \/ PollTick
    \/ PollReturns
    \/ PollDeadline

SpecPoller == InitPoller /\ [][NextPoller]_vars

\* retry as it is scheduled: every call of f returns, time goes on, a select
\* with a channel ready receives, and a select that finds done.C and tk.C
\* ready again and again, choosing between them at random each time, does
\* not choose tk.C for ever.
SpecPollerFair ==
    /\ SpecPoller
    /\ WF_vars(PollFirst)
    /\ WF_vars(PollFirstReturns)
    /\ WF_vars(PollReturns)
    /\ WF_vars(TimePasses)
    /\ WF_vars(PollTick \/ PollDeadline)
    /\ SF_vars(PollDeadline)

(***************************************************************************)
(* Sync() for an owner in any state: the cluster is being deleted or not,  *)
(* carries a creation timestamp or not, and its volume claim templates can *)
(* be built or not. The classification of Sync() is also run on every      *)
(* (operation, error) that creteOrUpdate can hand to it.                   *)
(***************************************************************************)
OwnerClusters ==
    {[DefaultCluster(2) EXCEPT !.deleting = d, !.created = c, !.vctError = v] :
        d \in BOOLEAN, c \in BOOLEAN, v \in BOOLEAN}

\* The errors Sync() tells apart, and the nil error.
ErrorKinds == {"", "ErrOwnerDeleted", "ErrIgnore", "owner is deleted", "get failed"}

Outcomes == [op : {OpNone, OpCreated, OpUpdated}, err : ErrorKinds]

InitOwner ==
    /\ cluster \in OwnerClusters
    /\ \/ FreshStart
       \/ SteadyStart
    /\ \/ InitLocal
       \/ \E r \in Outcomes : InitLocalAt("return", r)
    /\ NoPoll
    /\ NoSidecar

NextOwner ==
    \/ SyncGet
    \/ SyncCreate
    \/ SyncUpdate
    \/ UpdatePodEntry
    \/ SyncReturn
    \/ EnvSpecChange

SpecOwner == InitOwner /\ [][NextOwner]_vars

(***************************************************************************)
(* The builder on any cluster spec: every combination of the container     *)
(* flags, user labels that shadow base labels and the forced labels, user  *)
(* annotations, and a pod overlay field that is set or empty. The cluster  *)
(* is edited between the Sync() that built the StatefulSet and the next.   *)
(***************************************************************************)
UserLabelChoices ==
    {EmptyMap,
     [k \in {"role", "healthy"} |-> IF k = "role" THEN "leader" ELSE "yes"],
     [k \in {"app", "tier"} |-> IF k = "app" THEN "custom" ELSE "db"]}

UserAnnotationChoices == {EmptyMap, [k \in {"note"} |-> "x"]}

\* The overlay fields of the pod spec: none is set, or one of them.
OverlayChoices ==
    {[schedulerName |-> s, priorityClassName |-> p, affinity |-> a] :
        s \in {"", "sched"}, p \in {""}, a \in {""}}
    \cup {[schedulerName |-> "", priorityClassName |-> "high", affinity |-> ""],
          [schedulerName |-> "", priorityClassName |-> "", affinity |-> "zone"]}

BuilderClusters ==
    {[DefaultCluster(2) EXCEPT !.metrics = m, !.slowLogTail = sl, !.auditLogTail = al,
                               !.podLabels = ul, !.podAnnotations = ua,
                               !.schedulerName = ov.schedulerName,
                               !.priorityClassName = ov.priorityClassName,
                               !.affinity = ov.affinity] :
        m \in BOOLEAN, sl \in BOOLEAN, al \in BOOLEAN,
        ul \in UserLabelChoices, ua \in UserAnnotationChoices, ov \in OverlayChoices}

\* The fields in which two cluster specs differ.
Differing(c, d) == {f \in DOMAIN c : c[f] # d[f]}

\* The user edits one field of the cluster spec; the next syncer is built
\* with the cluster as stored.
EnvClusterEdit ==
    /\ UNCHANGED <<pollVars, sideVars>>
    /\ pc = "idle"
    /\ nChanges < MaxChanges
    /\ nChanges' = nChanges + 1
    /\ \E c \in BuilderClusters :
          /\ Count(Differing(cluster, c)) = 1
          /\ cluster' = c
    /\ External
    /\ UNCHANGED <<cmRev, storeVars, localVars, tokenFresh, nSyncs, nFaults>>

InitBuilder ==
    /\ cluster \in BuilderClusters
    /\ \/ FreshStart
       \/ cmRev = 0 /\ RunningFleet(0, 1)
    /\ InitLocal
    /\ NoPoll
    /\ NoSidecar

NextBuilder ==
    \/ SyncGet
    \/ SyncCreate
    \/ SyncUpdate
    \/ UpdatePodEntry
    \/ SyncReturn
    \/ EnvClusterEdit

SpecBuilder == InitBuilder /\ [][NextBuilder]_vars

(***************************************************************************)
(* The rollout on a fleet of three whose pods carry the role label in any  *)
(* combination: no leader, one, or several.                                *)
(***************************************************************************)
OrderFleet == 3

RoleChoices == [1..OrderFleet -> {"leader", "candidate"}]

InitOrder ==
    /\ cluster = DefaultCluster(OrderFleet)
    /\ cmRev = 1
    /\ \E r \in RoleChoices :
          LET old == mutate(NewSfs, cluster, 0, sctRev).obj
              obj == mutate(NewSfs, cluster, cmRev, sctRev).obj
              ps  == [i \in PodIds |->
                        IF i <= OrderFleet
                          THEN SteadyPod(RevisionOf(old.template), r[i] = "leader")
                          ELSE AbsentPod]
          IN  /\ storeExists = TRUE
              /\ storeSfs = [obj EXCEPT !.status = ControllerStatus(RevisionOf(obj.template), ps)]
              /\ podStore = ps
    /\ InitLocal
    /\ NoPoll
    /\ NoSidecar

SpecOrder == InitOrder /\ [][NextQuorum]_vars

(***************************************************************************)
(* Properties of the rollout.                                              *)
(***************************************************************************)
Range(q) == {q[k] : k \in 1..Len(q)}

\* The names of the listed pods, and of those listed as leader.
ListedNames == {items[k].name : k \in 1..Len(items)}

ListedLeaders == {items[k].name : k \in {j \in 1..Len(items) : items[j].obj.role = "leader"}}

AllListedHealthy == \A k \in 1..Len(items) : items[k].obj.healthy = "yes"

\* The pods of the fleet that run and carry healthy=yes.
Live == {i \in Names : podStore[i].phase = "Running" /\ podStore[i].healthy = "yes"}

Majority == (Replicas \div 2) + 1

ApplyErrors == {"pod not found", "delete failed", "get pod failed",
                "pod is in failed phase", "reach pod wait limit"}

\* C1: in a rollout, if any listed pod carries a healthy label other than
\* yes, whatever its position in the listing, no pod is deleted and the call
\* returns an error.
C1_AllOrNothingGate ==
    (listed /\ ~AllListedHealthy)
        => /\ delLog = <<>>
           /\ pc = "return" => ret.err # ""

\* C2: when the listing holds exactly one leader and every listed pod is
\* healthy, the leader is deleted only once apply-and-wait has reported done
\* for every other listed pod, wherever the leader stands in the listing.
C2_LeaderLast ==
    (listed /\ Cardinality(ListedLeaders) = 1 /\ AllListedHealthy)
        => \A l \in ListedLeaders :
              l \in Range(delLog) => (ListedNames \ {l}) \subseteq okSet

\* The leader stood first in a listing of three, and was deleted.
C2_Witness ==
    /\ listed
    /\ Len(items) = 3
    /\ AllListedHealthy
    /\ ListedLeaders = {items[1].name}
    /\ items[1].name \in Range(delLog)

\* C3 as stated: for 2, 3 and 5 replicas and a rollout started with every pod
\* running and healthy, a majority of the fleet runs and is healthy at every
\* point of the rollout.
C3_QuorumEveryFleet ==
    (listed /\ quorumStart) => Count(Live) >= Majority

\* C3: in a rollout started with every pod running and healthy, at most one
\* pod of the fleet is down at any point, which leaves a majority of a fleet
\* of 3 or 5 and one pod of a fleet of 2.
C3_QuorumFromThree ==
    (listed /\ quorumStart)
        => /\ Count(Live) >= Replicas - 1
           /\ Replicas >= 3 => Count(Live) >= Majority

\* A fleet of five in which the rollout has replaced three pods and just
\* deleted the fourth.
C3_Witness ==
    /\ Replicas = 5
    /\ listed
    /\ quorumStart
    /\ Len(delLog) = 4
    /\ Count(okSet) = 3
    /\ Count(Live) = 4

\* C4: when a Sync() wrote a changed template and its rollout was skipped for
\* replicas that were not ready, or aborted by a failed pod or by the wait
\* limit, a later Sync() with no further change of the inputs that finds every
\* replica ready and not every replica updated runs the rollout.
C4_RetryByReconcile ==
    (pc = "return" /\ owed /\ fetchedDue) => entry = "rollout"

\* The last applied pod, 0 if none.
LastApplied == IF applied = <<>> THEN NoName ELSE applied[Len(applied)]

\* C5: once apply-and-wait has failed for a pod, the rollout takes up no
\* other pod and deletes none, and returns the failure; when the wait for a
\* pod that is not the leader reaches its limit, the leader is not deleted.
C5_AbortSemantics ==
    /\ \A k \in 1..(Len(applied) - 1) : applied[k] \in okSet
    /\ Range(delLog) \subseteq Range(applied)
    /\ (pc = "return" /\ applied # <<>> /\ LastApplied \notin okSet)
          => ret.op = OpNone /\ ret.err \in ApplyErrors
    /\ (pc = "return" /\ ret.err = "reach pod wait limit" /\ LastApplied \notin ListedLeaders)
          => ListedLeaders \cap Range(delLog) = {}

\* The wait for the second of three pods reached its limit, with the leader
\* still to come.
C5_Witness ==
    /\ pc = "return"
    /\ ret.err = "reach pod wait limit"
    /\ Len(items) = 3
    /\ Len(applied) = 2
    /\ Len(delLog) = 2
    /\ Cardinality(ListedLeaders) = 1
    /\ LastApplied \notin ListedLeaders

\* The pods the rollout deleted that do not run with healthy=yes.
Down == Range(delLog) \ Live

\* C6: the rollout deletes a pod only after apply-and-wait has reported done
\* for every pod taken up before it, so that, unless a pod loses its health
\* label by itself, at most one pod deleted by the rollout is not back.
C6_Sequential ==
    /\ \A k \in 1..Len(delLog) :
          \A j \in 1..Len(applied) :
             applied[j] = delLog[k] => \A h \in 1..(j - 1) : applied[h] \in okSet
    /\ ~extFault => Count(Down) <= 1

\* The third pod was deleted after two had come back.
C6_Witness ==
    /\ Len(delLog) = 3
    /\ Count(okSet) = 2
    /\ Count(Down) = 1
    /\ ~extFault

(***************************************************************************)
(* Properties of creteOrUpdate.                                            *)
(***************************************************************************)
RolloutPcs == {"list", "loop", "apply", "probe", "wait"}

\* C7: a Sync() that follows another with nothing outside changed since the
\* first began returns "unchanged" without error and writes nothing, whatever
\* the first created or updated.
C7_Idempotent ==
    (pc = "return" /\ lastOp # "" /\ ~dirty)
        => ret = NoRet /\ didWrite = ""

\* A Sync() returned after one that created or updated, nothing outside
\* having changed.
C7_Witness ==
    /\ pc = "return"
    /\ lastOp \in {OpCreated, OpUpdated}
    /\ ~dirty
    /\ ret = NoRet

\* C8: when mutate leaves the fetched object as it was, Sync() returns
\* "unchanged" without error, writes nothing, and neither lists nor deletes a
\* pod.
C8_UnchangedNoEffect ==
    fetchedEq
        => /\ pc = "return"
           /\ ret = NoRet
           /\ didWrite = ""
           /\ entry = ""
           /\ ~listed
           /\ delLog = <<>>
           /\ applied = <<>>

\* An unchanged object was fetched while pods of an older revision run.
C8_Witness ==
    /\ fetchedEq
    /\ pc = "return"
    /\ fetchedDue

\* C9: updatePod runs only after the update of the same Sync() succeeded:
\* not after a create, an unchanged object, a failed fetch, a failed mutate
\* or a rejected update.
C9_OnlyAfterUpdate ==
    /\ (entry # "" \/ listed \/ applied # <<>> \/ delLog # <<>> \/ pc \in RolloutPcs \cup {"updatePod"})
          => didWrite = "update"
    /\ (pc = "return" /\ ret.err \in {"get failed", "create failed", "update failed",
                                       "conflict", "not found"})
          => entry = ""
    /\ (pc = "return" /\ ret.op = OpCreated) => entry = ""

\* updatePod deleted a pod after an update.
C9_Witness ==
    /\ didWrite = "update"
    /\ entry = "rollout"
    /\ delLog # <<>>

\* C10: when the status shows updatedReplicas >= replicas, updatePod neither
\* lists nor deletes nor waits for a pod, and Sync() returns "updated"
\* without error.
C10_NoOpSkip ==
    /\ (pc \in RolloutPcs \/ listed \/ applied # <<>> \/ delLog # <<>> \/ entry = "rollout")
          => (pc # "return" => sfs.status.updatedReplicas < sfs.status.replicas)
    /\ entry = "nothing pending"
          => /\ pc = "return"
             /\ ret = [op |-> OpUpdated, err |-> ""]
             /\ ~listed /\ applied = <<>> /\ delLog = <<>>

\* updatePod returned at once for a fleet that runs.
C10_Witness ==
    /\ entry = "nothing pending"
    /\ pc = "return"
    /\ ret.op = OpUpdated
    /\ Count(Live) = Replicas

\* C11: when the status shows readyReplicas < replicas as updatePod is
\* entered, updatePod lists, deletes and waits for no pod, and Sync() returns
\* "updated" without error.
C11_NotReadySkip ==
    /\ pc \in RolloutPcs => sfs.status.readyReplicas >= sfs.status.replicas
    /\ entry = "not ready"
          => /\ pc = "return"
             /\ ret = [op |-> OpUpdated, err |-> ""]
             /\ SyncResultOf(ret.op, ret.err).err = ""
             /\ ~listed /\ applied = <<>> /\ delLog = <<>>

\* updatePod returned while a pod of the fleet was not ready.
C11_Witness ==
    /\ entry = "not ready"
    /\ pc = "return"
    /\ ret.op = OpUpdated
    /\ \E i \in Names : ~PodReady(podStore[i])

(***************************************************************************)
(* Properties of applyNWait.                                               *)
(***************************************************************************)
\* The five conditions of the readiness gate on a stored pod d.
AtGate(d) ==
    /\ d.phase = "Running"
    /\ d.mysql
    /\ d.xenon
    /\ d.rev = TargetRev
    /\ d.healthy = "yes"

\* C12: applyNWait reports done for a pod only at a probe where the pod runs,
\* its containers mysql and xenon are ready, its revision is the target
\* revision and it is labelled healthy=yes.
C12_ReadinessGate ==
    \A d \in doneLog : AtGate(d)

\* C13: a probe that finds the pod in the failed phase ends the wait with an
\* error: the wait never goes on to another probe, and never reports done,
\* with a pod seen failed.
C13_FailedPhaseFails ==
    /\ pc = "wait" => pod.obj.phase # "Failed"
    /\ \A d \in doneLog : d.phase # "Failed"
    /\ (pc = "return" /\ ret.err = "pod is in failed phase") => ret.op = OpNone

\* The first pod was deleted, came back and failed; the wait returned the
\* error.
C13_Witness ==
    /\ pc = "return"
    /\ ret.err = "pod is in failed phase"
    /\ delLog = <<1>>
    /\ podStore[1].phase = "Failed"

\* C14: applyNWait deletes a pod exactly when the pod's revision differs
\* from the target revision; a pod at the target revision is waited for
\* without a delete.
C14_DeleteIffOutdated ==
    \A k \in 1..Len(items) :
       LET n == items[k].name
           r == items[k].obj.rev
       IN  /\ n \in Range(delLog) => r # TargetRev
           /\ (r # TargetRev /\ (n \in okSet \/ (pc \in {"probe", "wait"} /\ pod.name = n)))
                 => n \in Range(delLog)

\* The first pod is at the target revision and is waited for, not deleted.
C14_Witness ==
    /\ pc = "wait"
    /\ pod.name = 1
    /\ items[1].obj.rev = TargetRev
    /\ delLog = <<>>

(***************************************************************************)
(* Properties of retry.                                                    *)
(***************************************************************************)
\* C15: with an f that never reports done and never errs, retry returns the
\* timeout error, and f is not called once done.C holds the deadline, also
\* when tk.C holds a tick at that moment.
C15_NoProbeAfterDeadline ==
    stub = NoStub
        => /\ lateCalls = 0
           /\ pollPc \in {"ok", "failed", "timeout"} => RetryError = "reach pod wait limit"

\* f reports done at its N-th call before any other outcome.
DoneFirst == stub.doneAt > 0 /\ (stub.errAt = 0 \/ stub.errAt > stub.doneAt)

\* C16: when f reports done at its N-th call, retry calls f at most N times,
\* the first call at once and each later call after a tick of its own (at a
\* later time, as far as the clock tells times apart), and returns nil after
\* the N-th call.
C16_PollTermination ==
    DoneFirst
        => /\ Len(callLog) <= stub.doneAt
           /\ callLog # <<>> => callLog[1] = 0
           /\ \A k \in 2..Len(callLog) :
                 callLog[k] > callLog[k - 1] \/ callLog[k - 1] = ClockCap
           /\ pollPc = "ok" => Len(callLog) = stub.doneAt /\ RetryError = ""
           /\ (Len(callLog) = stub.doneAt /\ pollPc \notin {"first", "probing"})
                 => pollPc = "ok"

\* retry returned nil after three calls.
C16_Witness ==
    /\ stub.doneAt = 3
    /\ pollPc = "ok"
    /\ Len(callLog) = 3
    /\ clock < PollLimit

\* f errs at its N-th call before any other outcome.
ErrFirst == stub.errAt > 0 /\ (stub.doneAt = 0 \/ stub.doneAt >= stub.errAt)

\* C17: when f errs, at its first or at a later call, retry returns the error
\* and does not call f again.
C17_ErrorPropagates ==
    ErrFirst
        => /\ Len(callLog) <= stub.errAt
           /\ (Len(callLog) = stub.errAt /\ pollPc \notin {"first", "probing"})
                 => pollPc = "failed" /\ RetryError = "probe error"

\* retry returned the error of the second call.
C17_Witness ==
    /\ stub.errAt = 2
    /\ pollPc = "failed"
    /\ Len(callLog) = 2

\* retry has returned.
PollReturned == pollPc \in {"ok", "failed", "timeout"}

\* C31: every call of retry returns, with nil, with the error of f or with
\* the timeout error, when every call of f returns; also when f takes longer
\* than the interval, so that tk.C holds a tick each time the select runs
\* after done.C has received the deadline.
C31_PollerReturns == <>PollReturned

\* f took longer than the interval: the select found the deadline and a tick
\* together, took the tick twice and called f, and retry returned the
\* timeout error all the same.
C31_Witness ==
    /\ pollPc = "timeout"
    /\ lateCalls >= 2
    /\ tickC

(***************************************************************************)
(* Properties of Sync() and of mutate for an owner being deleted.          *)
(***************************************************************************)
\* What Sync() returns for what creteOrUpdate returned.
SyncResult == SyncResultOf(ret.op, ret.err)

\* C18: when the cluster is being deleted and the StatefulSet does not
\* exist, Sync() does not create it.
C18_OwnerDeletedRefusal ==
    cluster.deleting => pc # "create" /\ didWrite # "create"

\* C19: Sync() returns no error when creteOrUpdate failed with the
\* owner-deleted signal, the owner-deleted error of mutate included, or with
\* the ignore signal, and returns every other error.
C19_SoftErrors ==
    pc = "return"
        => IF ret.err \in {"ErrOwnerDeleted", "ErrIgnore", "owner is deleted"}
             THEN SyncResult.err = ""
             ELSE SyncResult.err = ret.err

C21_WriteConflict ==
    [][(pc = "update" /\ ~tokenFresh /\ pc' # "update")
          => /\ pc' = "return"
             /\ ret'.err \in {"conflict", "update failed"}
             /\ SyncResultOf(ret'.op, ret'.err).err = ret'.err
             /\ storeSfs' = storeSfs
             /\ podStore' = podStore
             /\ didWrite' = ""
             /\ entry' = ""
             /\ delLog' = <<>>]_vars

\* Another client set the update strategy between the fetch and the update;
\* the update was rejected and the strategy is still the one it set.
C21_Witness ==
    /\ pc = "return"
    /\ ret.err = "conflict"
    /\ storeSfs.strategy = "RollingUpdate"
    /\ delLog = <<>>

(***************************************************************************)
(* Properties of the builder (mutate, ensurePodSpec).                      *)
(***************************************************************************)
\* The syncer holds the StatefulSet that mutate built.
Built == pc \in {"create", "update"}

\* C22: the containers of the built template are mysql and xenon, then
\* metrics iff metrics is enabled, then the slow log container iff the slow
\* log is tailed, then the audit log container iff the audit log is tailed;
\* the init containers are init-sidecar and init-mysql.
C22_ContainerLists ==
    Built
        => /\ sfs.template.spec.containers
                = <<"mysql", "xenon">>
                    \o (IF cluster.metrics THEN <<"metrics">> ELSE <<>>)
                    \o (IF cluster.slowLogTail THEN <<"slowlog">> ELSE <<>>)
                    \o (IF cluster.auditLogTail THEN <<"auditlog">> ELSE <<>>)
           /\ sfs.template.spec.initContainers = <<"init-sidecar", "init-mysql">>

\* C23: no step of Sync() changes the cluster: every field of the cluster
\* spec, the user's pod labels and pod annotations included, is after the
\* call what it was before.
C23_ClusterUntouched ==
    [][(pc # "idle" \/ pc' # "idle") => cluster' = cluster]_vars

\* C24: the labels of the built template hold role=candidate and healthy=no
\* whatever the user's pod labels say about role and healthy; every other key
\* of the user's labels holds the user's value, also when the base labels
\* have the key, and every other key of the base labels holds the base value.
C24_ForcedLabels ==
    Built
        => LET L == sfs.template.labels
               U == cluster.podLabels
           IN  /\ DOMAIN L = DOMAIN BaseLabels \cup DOMAIN U \cup {"role", "healthy"}
               /\ L["role"] = "candidate"
               /\ L["healthy"] = "no"
               /\ \A k \in DOMAIN L \ {"role", "healthy"} :
                     L[k] = IF k \in DOMAIN U THEN U[k] ELSE BaseLabels[k]

\* The user's labels say role=leader and healthy=yes; the template is built.
C24_Witness ==
    /\ Built
    /\ Lookup(cluster.podLabels, "role") = "leader"
    /\ Lookup(cluster.podLabels, "healthy") = "yes"
    /\ sfs.template.labels["role"] = "candidate"

(***************************************************************************)
(* Properties of the ownership of the StatefulSet.                         *)
(***************************************************************************)
\* The StatefulSet as its writers write it: the object without the status,
\* which the controller reports.
SpecOf(obj) == [obj EXCEPT !.status = ZeroStatus]

\* The positions of updatePod, applyNWait and retry.
OrchestratorPcs == {"updatePod"} \cup RolloutPcs

\* C25: no step taken while updatePod runs (the entry checks, the listing,
\* a delete, a probe, the timeout) creates, updates or deletes the
\* StatefulSet in the store; the StatefulSet is created and updated only by
\* the create and the update of creteOrUpdate, or by another client between
\* two Sync() calls or between the fetch and the update.
C25_OnlyPodsDeleted ==
    [][(pc \in OrchestratorPcs \cup {"return"})
          => /\ storeExists' = storeExists
             /\ SpecOf(storeSfs') = SpecOf(storeSfs)]_vars

\* A rollout deleted every pod of a fleet of three and returned; the
\* StatefulSet is in the store as the update wrote it.
C25_Witness ==
    /\ pc = "return"
    /\ didWrite = "update"
    /\ entry = "rollout"
    /\ ret.err = ""
    /\ Len(delLog) = 3
    /\ storeExists
    /\ SpecOf(storeSfs) = SpecOf(mutate(NewSfs, cluster, cmRev, sctRev).obj)

\* The errors updatePod returns.
UpdatePodErrors == {"list failed", "pod is unhealthy"} \cup ApplyErrors

\* C26: a Sync() whose update was written returns "updated" when updatePod
\* returned without error (nothing pending, not all replicas ready, or the
\* rollout ran to its end); when updatePod returned an error, Sync() returns
\* "unchanged" with that error.
C26_UpdatedUnlessAborted ==
    (pc = "return" /\ didWrite = "update")
        => IF ret.err = ""
             THEN ret.op = OpUpdated
             ELSE ret.op = OpNone /\ ret.err \in UpdatePodErrors

\* The update was written, the rollout replaced a pod and then failed at the
\* wait for the next.
C26_Witness ==
    /\ pc = "return"
    /\ didWrite = "update"
    /\ entry = "rollout"
    /\ okSet # {}
    /\ ret.err = "reach pod wait limit"
    /\ ret.op = OpNone

\* C26 as stated: a Sync() whose update was written returns "updated",
\* whatever updatePod did.
C26_AlwaysUpdated ==
    (pc = "return" /\ didWrite = "update") => ret.op = OpUpdated

\* The template mutate builds over an empty StatefulSet, as on the create
\* path.
CreateTemplate == mutate(NewSfs, cluster, cmRev, sctRev).obj.template

\* C27: the template mutate builds over the fetched StatefulSet is the one
\* it builds over an empty StatefulSet for the same cluster and the same
\* revisions, also when an overlay field of the pod spec that the fetched
\* object holds is now empty in the cluster: the object handed to the update
\* holds that template, and when mutate leaves the fetched object as it was,
\* the stored template is that template.
C27_CreateUpdateAgree ==
    /\ pc = "update" => sfs.template = CreateTemplate
    /\ (pc = "return" /\ fetchedEq) => storeSfs.template = CreateTemplate

(***************************************************************************)
(* Properties of the order of the rollout.                                 *)
(***************************************************************************)
\* The names of the listed pods, in listing order.
ListedSeq == [k \in 1..Len(items) |-> items[k].name]

\* The positions of the listing that hold a pod labeled leader.
LeaderPositions == {k \in 1..Len(items) : items[k].obj.role = "leader"}

\* The order in which a rollout takes the listed pods: listing order, the
\* first pod labeled leader moved to the end.
RolloutOrder ==
    IF LeaderPositions = {}
      THEN ListedSeq
      ELSE LET k == CHOOSE j \in LeaderPositions : \A i \in LeaderPositions : j <= i
           IN  SubSeq(ListedSeq, 1, k - 1) \o SubSeq(ListedSeq, k + 1, Len(items))
                 \o <<ListedSeq[k]>>

\* C28: a rollout that returns without error has called applyNWait once for
\* every listed pod: the pods in listing order, except that the first pod
\* labeled leader comes last; further pods labeled leader are taken where
\* they stand in the listing.
C28_OncePerPodInOrder ==
    (pc = "return" /\ entry = "rollout" /\ listed /\ ret.err = "")
        => applied = RolloutOrder

\* A rollout over a listing with two pods labeled leader, the first of them
\* standing first, returned without error.
C28_Witness ==
    /\ pc = "return"
    /\ entry = "rollout"
    /\ ret.err = ""
    /\ Len(items) = 3
    /\ LeaderPositions = {1, 3}
    /\ applied = <<2, 3, 1>>

\* C29: also when leadership moves while the rollout runs, the rollout
\* deletes a pod that is labeled leader in the store at the moment of the
\* delete only once applyNWait has reported done for every other listed pod.
C29_NoLeaderDeletedEarly ==
    [][Len(delLog') > Len(delLog)
          => LET d == delLog'[Len(delLog')]
             IN  podStore[d].role = "leader" => (ListedNames \ {d}) \subseteq okSet]_vars

(***************************************************************************)
(* Properties of the wait for a pod that is gone.                          *)
(***************************************************************************)
\* C30: while the pod applyNWait waits for is not in the store, no probe
\* reports done and none fails on what the pod was before: applyNWait goes
\* on waiting, and returns only for the deadline or for a Get that failed
\* otherwise than with NotFound.
C30_AbsentPodKeepsWaiting ==
    [][(pc \in {"probe", "wait"} /\ podStore[pod.name].phase = "Absent")
          => /\ okSet' = okSet
             /\ pc' \in {"probe", "wait", "return"}
             /\ pc' = "return" => ret'.err \in {"get pod failed", "reach pod wait limit"}]_vars

\* ---------------------------------------------------------------------------
\* The init-sidecar container: the operator fills its environment
\* (cluster/container/init_sidecar.go), "sidecar init" reads it into a Config
\* and writes xenon.json from it (sidecar/config.go, sidecar/init.go).
\* A string is the sequence of its characters; a version string is the
\* sequence of its dot-separated numbers.
\* ---------------------------------------------------------------------------

\* The largest int32, the bitSize of the two ParseInt calls.
MaxInt32 == 2147483647

MinInt32 == (0 - MaxInt32) - 1

DigitChars == <<"0", "1", "2", "3", "4", "5", "6", "7", "8", "9">>

RECURSIVE DigitsOf(_)
DigitsOf(n) ==
    IF n < 10 THEN <<DigitChars[n + 1]>>
    ELSE DigitsOf(n \div 10) \o <<DigitChars[(n % 10) + 1]>>

\* strconv.Itoa: the decimal text of an integer.
Itoa(n) == IF n < 0 THEN <<"-">> \o DigitsOf(0 - n) ELSE DigitsOf(n)

\* The magnitude of a run of digits: -1 for exactly 2^31, -2 for more.
RECURSIVE Magnitude(_, _)
Magnitude(s, acc) ==
    IF s = <<>> THEN acc
    ELSE LET d == (CHOOSE k \in 1..10 : DigitChars[k] = Head(s)) - 1 IN
         IF acc < 0 THEN -2
         ELSE IF acc > MaxInt32 \div 10 THEN -2
         ELSE IF acc = MaxInt32 \div 10 /\ d > 8 THEN -2
         ELSE IF acc = MaxInt32 \div 10 /\ d = 8 THEN Magnitude(Tail(s), -1)
         ELSE Magnitude(Tail(s), acc * 10 + d)

\* strconv.ParseInt(s, 10, 32): a syntax error for an empty text, a lone sign
\* or a character that is no digit, a range error outside int32.
ParseInt(s) ==
    LET signed == s # <<>> /\ Head(s) \in {"+", "-"}
        neg == s # <<>> /\ Head(s) = "-"
        digits == IF signed THEN Tail(s) ELSE s
        syntax == \/ digits = <<>>
                  \/ \E i \in 1..Len(digits) :
                        \A k \in 1..10 : DigitChars[k] # digits[i]
        mag == IF syntax THEN 0 ELSE Magnitude(digits, 0)
    IN  IF syntax THEN [err |-> "syntax", val |-> 0]
        ELSE IF mag = -2 \/ (mag = -1 /\ ~neg) THEN [err |-> "range", val |-> 0]
        ELSE IF mag = -1 THEN [err |-> "", val |-> MinInt32]
        ELSE [err |-> "", val |-> IF neg THEN 0 - mag ELSE mag]

\* semver.Parse: a version has exactly Major.Minor.Patch.
semverParse(v) ==
    IF Len(v) = 3 THEN [err |-> "", major |-> v[1], minor |-> v[2], patch |-> v[3]]
    ELSE [err |-> "version", major |-> 0, minor |-> 0, patch |-> 0]

\* utils.MySQLDefaultVersion.
MySQLDefaultVersion == <<5, 7, 33>>

\* The versions GetMySQLVersion can hand out, one of each xenon setting.
MySQLVersions == {<<5, 6, 51>>, <<5, 7, 33>>, <<8, 0, 25>>}

\* The clusters getEnvVars is called for; the XenonOpts are the defaults and
\* what a user can write, the CRD setting no minimum.
SidecarClusters ==
    [version : MySQLVersions, count : {5, 3, 0, -2}, timeout : {10000, 3000, 0}]

\* os.Getenv behind getEnvValue: an unset variable reads as the empty text.
getEnvValue(e, key) == IF key \in DOMAIN e THEN e[key] ELSE <<>>

\* An environment without its empty entries.
EnvOf(f) == [k \in {key \in DOMAIN f : f[key] # <<>>} |-> f[k]]

\* init_sidecar.go, getEnvVars: the three values the sidecar computes with.
getEnvVars(c) ==
    EnvOf([ADMIT_DEFEAT_HEARBEAT_COUNT |-> Itoa(c.count),
           ELECTION_TIMEOUT |-> Itoa(c.timeout),
           MY_MYSQL_VERSION |-> c.version])

\* config.go, NewConfig.
NewConfig(e) ==
    LET parsed == semverParse(getEnvValue(e, "MYSQL_VERSION"))
        mysqlVersion == IF parsed.err # "" THEN semverParse(MySQLDefaultVersion)
                        ELSE parsed
        count == ParseInt(getEnvValue(e, "ADMIT_DEFEAT_HEARBEAT_COUNT"))
        timeout == ParseInt(getEnvValue(e, "ELECTION_TIMEOUT"))
    IN  [version |-> <<mysqlVersion.major, mysqlVersion.minor, mysqlVersion.patch>>,
         count |-> IF count.err # "" THEN 5 ELSE count.val,
         timeout |-> IF timeout.err # "" THEN 10000 ELSE timeout.val]

\* Go's / on int32, for b # 0: the quotient truncated toward zero, wrapping
\* for MinInt32 / -1.
Quotient(a, b) ==
    IF b = MinInt32 THEN (IF a = MinInt32 THEN 1 ELSE 0)
    ELSE LET absA == IF a < 0 THEN 0 - a ELSE a
             absB == IF b < 0 THEN 0 - b ELSE b
             mag == IF a = MinInt32 THEN 1 + (((MaxInt32 - absB) + 1) \div absB)
                    ELSE absA \div absB
         IN  IF a = MinInt32 /\ absB = 1 THEN MinInt32
             ELSE IF (a < 0) = (b < 0) THEN mag ELSE 0 - mag

\* config.go, buildXenonConf, lines 153-160: the xenon version setting.
XenonVersion(v) ==
    IF v[1] = 5 THEN (IF v[2] = 6 THEN "mysql56" ELSE "mysql57") ELSE "mysql80"

\* config.go, buildXenonConf: the four values it computes.
buildXenonConf(c) ==
    [version |-> XenonVersion(c.version),
     ping |-> Quotient(c.timeout, c.count),
     heartbeat |-> Quotient(c.timeout, c.count),
     request |-> Quotient(c.timeout, c.count)]

\* The operator renders the container for a cluster.
SidecarEnv ==
    /\ sidePc = "cluster"
    /\ env' = getEnvVars(sideIn)
    /\ sidePc' = "env"
    /\ UNCHANGED <<mainVars, pollVars, sideIn, cfg, xenonConf>>

\* init.go: "sidecar init" starts with NewConfig.
SidecarConfig ==
    /\ sidePc = "env"
    /\ cfg' = NewConfig(env)
    /\ sidePc' = "config"
    /\ UNCHANGED <<mainVars, pollVars, sideIn, env, xenonConf>>

\* init.go line 148: xenon.json is built from the Config; the integer
\* division of config.go line 148 panics when the count is zero.
SidecarBuild ==
    /\ sidePc = "config"
    /\ IF cfg.count = 0
       THEN /\ sidePc' = "panic"
            /\ UNCHANGED xenonConf
       ELSE /\ sidePc' = "built"
            /\ xenonConf' = buildXenonConf(cfg)
    /\ UNCHANGED <<mainVars, pollVars, sideIn, env, cfg>>

\* Either the operator is about to render the container for a cluster, or
\* the container stands with an environment somebody else gave it: the two
\* numbers absent (the empty text of getEnvValue), no number, zero, signed,
\* at and beyond the ends of int32; the versions absent, a tag without a
\* patch number, a version.
InitSidecar ==
    /\ cluster = DefaultCluster(2)
    /\ FreshStart
    /\ InitLocal
    /\ NoPoll
    /\ cfg = [version |-> <<>>, count |-> 0, timeout |-> 0]
    /\ xenonConf = [version |-> "", ping |-> 0, heartbeat |-> 0, request |-> 0]
    /\ \/ /\ sidePc = "cluster"
          /\ sideIn \in SidecarClusters
          /\ env = [k \in {} |-> <<>>]
       \/ /\ sidePc = "env"
          /\ sideIn = [version |-> <<>>, count |-> 0, timeout |-> 0]
          /\ \E count \in {<<>>, <<"a", "b">>, <<"5", "x">>, <<"-">>, <<"0">>,
                            <<"7">>, <<"+", "4">>, <<"-", "3">>,
                            <<"2", "1", "4", "7", "4", "8", "3", "6", "4", "7">>,
                            <<"2", "1", "4", "7", "4", "8", "3", "6", "4", "8">>,
                            <<"-", "2", "1", "4", "7", "4", "8", "3", "6", "4", "8">>},
                timeout \in {<<>>, <<"1", "0", "s">>, <<"0">>, <<"9", "0", "0", "0">>,
                              <<"-", "1">>,
                              <<"9", "9", "9", "9", "9", "9", "9", "9", "9", "9", "9">>},
                my \in {<<>>, <<5, 7>>, <<8, 0, 25>>},
                mysql \in {<<>>, <<5, 7>>, <<8, 0, 25>>} :
                env = EnvOf([ADMIT_DEFEAT_HEARBEAT_COUNT |-> count,
                             ELECTION_TIMEOUT |-> timeout,
                             MY_MYSQL_VERSION |-> my,
                             MYSQL_VERSION |-> mysql])

NextSidecar ==
    \/ SidecarEnv
    \/ SidecarConfig
    \/ SidecarBuild

SpecSidecar == InitSidecar /\ [][NextSidecar]_vars

\* C32: the MySQL version the operator puts in the environment of the
\* init-sidecar container is the version NewConfig uses, and the one the
\* xenon version setting is chosen from; the default version stands in only
\* when the passed value is not a valid version.
C32_PassedVersionUsed ==
    LET passed == getEnvValue(env, "MY_MYSQL_VERSION")
    IN  /\ sidePc \in {"config", "built", "panic"} =>
              cfg.version = IF semverParse(passed).err = "" THEN passed
                            ELSE MySQLDefaultVersion
        /\ (sidePc = "built" /\ sideIn \in SidecarClusters) =>
              xenonConf.version = XenonVersion(sideIn.version)

\* C33: whatever ADMIT_DEFEAT_HEARBEAT_COUNT and ELECTION_TIMEOUT hold,
\* buildXenonConf never divides by zero: the heartbeat count of the Config is
\* not zero, and a value that cannot be parsed is replaced by 5 (by 10000 for
\* the election timeout).
C33_NoDivisionByZero ==
    /\ sidePc # "panic"
    /\ sidePc \in {"config", "built"} =>
          /\ cfg.count # 0
          /\ ParseInt(getEnvValue(env, "ADMIT_DEFEAT_HEARBEAT_COUNT")).err # "" => cfg.count = 5
          /\ ParseInt(getEnvValue(env, "ELECTION_TIMEOUT")).err # "" => cfg.timeout = 10000

====
